---- MODULE Spec2Model ----
(***************************************************************************)
(* Model of src/matplot.py: the CountryData entity, its five indicator     *)
(* loaders (single-entity and European-Union aggregate paths), and the     *)
(* lazy plot_<indicator> accessors.                                        *)
(*                                                                         *)
(* Floating point values are modelled as exact fractions <<n, d>> with     *)
(* d > 0, plus the three IEEE specials <<1,0>> (inf), <<-1,0>> (-inf) and  *)
(* <<0,0>> (NaN).  Dates are modelled as the integer YYYYMM of the first   *)
(* day of the period; 0 is NaT.                                            *)
(***************************************************************************)
EXTENDS Integers, Sequences, FiniteSets, TLC

(***************************************************************************)
(* Bounds of the model.                                                    *)
(***************************************************************************)
MaxMembers  == 3   \* longest prefix of EU_COUNTRIES used as the member list
MaxPwtRows  == 2   \* rows of the Penn World Table source
MaxCpiRows  == 2   \* rows of the CPI source
MaxUnempRows == 2  \* rows of the unemployment source
MaxBondRows == 2   \* rows of the long-term interest rate source
MaxCalls    == 3   \* operations invoked on one entity

(***************************************************************************)
(* Floating point arithmetic (numpy float64 semantics for / + - * on the   *)
(* special values; rounding is not modelled).                              *)
(***************************************************************************)
NaN    == <<0, 0>>
PosInf == <<1, 0>>
NegInf == <<-1, 0>>
Fin(n) == <<n, 1>>

Abs(x) == IF x < 0 THEN -x ELSE x
Sgn(x) == IF x < 0 THEN -1 ELSE IF x > 0 THEN 1 ELSE 0

RECURSIVE GCD(_, _)
GCD(a, b) == IF b = 0 THEN a ELSE GCD(b, a % b)

Norm(n, d) ==
    LET s == IF d < 0 THEN -1 ELSE 1
        g == GCD(Abs(n), Abs(d))
    IN  <<(s * n) \div g, (s * d) \div g>>

IsNaN(x)    == x = NaN
IsFinite(x) == x[2] # 0

FNeg(a) == <<-a[1], a[2]>>

FAdd(a, b) ==
    IF IsNaN(a) \/ IsNaN(b) THEN NaN
    ELSE IF IsFinite(a) /\ IsFinite(b) THEN Norm(a[1] * b[2] + b[1] * a[2], a[2] * b[2])
    ELSE IF IsFinite(b) THEN a
    ELSE IF IsFinite(a) THEN b
    ELSE IF a = b THEN a ELSE NaN

FSub(a, b) == FAdd(a, FNeg(b))

FMul(a, b) ==
    IF IsNaN(a) \/ IsNaN(b) THEN NaN
    ELSE IF IsFinite(a) /\ IsFinite(b) THEN Norm(a[1] * b[1], a[2] * b[2])
    ELSE IF a[1] = 0 \/ b[1] = 0 THEN NaN
    ELSE <<Sgn(a[1]) * Sgn(b[1]), 0>>

FDiv(a, b) ==
    IF IsNaN(a) \/ IsNaN(b) THEN NaN
    ELSE IF IsFinite(a) /\ IsFinite(b)
         THEN IF b[1] = 0
              THEN IF a[1] = 0 THEN NaN ELSE <<Sgn(a[1]), 0>>
              ELSE Norm(a[1] * b[2], a[2] * b[1])
    ELSE IF IsFinite(a) THEN Fin(0)
    ELSE IF IsFinite(b) THEN <<a[1] * (IF b[1] < 0 THEN -1 ELSE 1), 0>>
    ELSE NaN

\* a <= b as numpy compares it: FALSE as soon as one side is NaN
FLe(a, b) ==
    IF IsNaN(a) \/ IsNaN(b) THEN FALSE
    ELSE IF IsFinite(a) /\ IsFinite(b) THEN a[1] * b[2] <= b[1] * a[2]
    ELSE IF a = NegInf \/ b = PosInf THEN TRUE
    ELSE FALSE

RECURSIVE FSum(_)
FSum(s) == IF s = <<>> THEN Fin(0) ELSE FAdd(Head(s), FSum(Tail(s)))

FMean(s) == FDiv(FSum(s), Fin(Len(s)))

(***************************************************************************)
(* Cells of a source table as pandas.read_csv delivers them: a number, a   *)
(* non-numeric string, or an empty (missing) cell.                         *)
(***************************************************************************)
Num(v) == [t |-> "num", v |-> v]
Str    == [t |-> "str", v |-> 0]
Na     == [t |-> "na",  v |-> 0]

\* pd.to_numeric(..., errors="coerce")
to_numeric(c) == IF c.t = "num" THEN Fin(c.v) ELSE NaN

(***************************************************************************)
(* Dates.                                                                  *)
(***************************************************************************)
NaT == 0

\* pd.to_datetime(x, format="%Y"): a four digit year gives 1 January
ParseYear(tok) ==
    CASE tok = "2019" -> 201901
      [] tok = "2020" -> 202001
      [] OTHER        -> NaT

\* pd.to_datetime(x, format="%Y-%m"): year-month gives the first of the month
ParseYearMonth(tok) ==
    CASE tok = "2019-01" -> 201901
      [] tok = "2019-02" -> 201902
      [] OTHER           -> NaT

\* pd.to_datetime(x, errors="coerce") without a format
\* (TIME_PERIOD read as text; only the identity of a date matters to the
\* grouping, sorting and counting that follow)
ParseAny(tok) ==
    IF ParseYear(tok) # NaT THEN ParseYear(tok) ELSE ParseYearMonth(tok)

(***************************************************************************)
(* Sequence helpers (pandas row operations).                               *)
(***************************************************************************)
SeqsUpTo(S, n) == UNION {[1..k -> S] : k \in 0..n}

Range(s) == {s[i] : i \in 1..Len(s)}

RECURSIVE SetToSortedSeq(_)
SetToSortedSeq(S) ==
    IF S = {} THEN <<>>
    ELSE LET m == CHOOSE x \in S : \A y \in S : x <= y
         IN  <<m>> \o SetToSortedSeq(S \ {m})

\* DataFrame.sort_values(key): rows ordered by key, ties keep file order;
\* k[i] is the key of row s[i]
SortByKey(s, k) ==
    LET keys == SetToSortedSeq(Range(k))
        rows(key) == LET idx == SelectSeq([i \in 1..Len(s) |-> i], LAMBDA i : k[i] = key)
                     IN  [j \in 1..Len(idx) |-> s[idx[j]]]
        RECURSIVE Cat(_)
        Cat(i) == IF i > Len(keys) THEN <<>> ELSE rows(keys[i]) \o Cat(i + 1)
    IN  Cat(1)

\* pd.concat(frames)
RECURSIVE Concat(_)
Concat(frames) == IF frames = <<>> THEN <<>> ELSE Head(frames) \o Concat(Tail(frames))

\* DataFrame.drop_duplicates(subset=[key]): the first row of every key is kept
\* k[i] is the key of row s[i]
RECURSIVE DropDuplicates(_, _, _)
DropDuplicates(s, k, seen) ==
    IF s = <<>> THEN <<>>
    ELSE IF Head(k) \in seen THEN DropDuplicates(Tail(s), Tail(k), seen)
    ELSE <<Head(s)>> \o DropDuplicates(Tail(s), Tail(k), seen \cup {Head(k)})

(***************************************************************************)
(* The member list.  EU_COUNTRIES is a class constant; the model runs the  *)
(* program with every non-empty prefix of it of at most MaxMembers names.  *)
(***************************************************************************)
AllMembers == <<"Austria", "Belgium", "Bulgaria", "Croatia", "Cyprus", "Czechia">>

MemberLists == {SubSeq(AllMembers, 1, k) : k \in 1..MaxMembers}

(***************************************************************************)
(* get_gdp, single country (lines 66-75).                                  *)
(***************************************************************************)
\* DataFrame.melt(id_vars="Country", value_vars=cols): column by column
Melt(df, cols) ==
    [i \in 1..(Len(df) * Len(cols)) |->
        LET c == cols[((i - 1) \div Len(df)) + 1]
            r == df[((i - 1) % Len(df)) + 1]
        IN  [Country |-> r.Country, Date |-> c, value |-> r.cells[c]]]

WithCode(t, nm, code) ==
    SelectSeq(t.rows, LAMBDA r : r.Country = nm /\ r.code = code)

SingleGdp(nm, t) ==
    LET df      == WithCode(t, nm, "rgdpo")
        df_long == Melt(df, t.cols)
        conv    == [i \in 1..Len(df_long) |->
                      [Country |-> df_long[i].Country,
                       Date    |-> ParseYear(df_long[i].Date),
                       GDP     |-> to_numeric(df_long[i].value)]]
    IN  SelectSeq(conv, LAMBDA r : ~IsNaN(r.GDP))

(***************************************************************************)
(* get_gdp_per_capita, single country (lines 100-119).                     *)
(***************************************************************************)
\* pd.merge(left, right, on=["Country", "Date"], how="inner")
Merge(left, right) ==
    Concat([i \in 1..Len(left) |->
        LET m == SelectSeq(right, LAMBDA r : r.Country = left[i].Country
                                             /\ r.Date = left[i].Date)
        IN  [j \in 1..Len(m) |->
                [Country |-> left[i].Country, Date |-> left[i].Date,
                 GDP |-> left[i].value, Population |-> m[j].value]]])

PerCapita(gdp, pop) == FDiv(gdp, pop)

SingleGdpPerCapita(nm, t) ==
    LET gdp_long == Melt(WithCode(t, nm, "rgdpo"), t.cols)
        pop_long == Melt(WithCode(t, nm, "pop"), t.cols)
        merged   == Merge(gdp_long, pop_long)
        conv     == [i \in 1..Len(merged) |->
                       LET g == to_numeric(merged[i].GDP)
                           p == to_numeric(merged[i].Population)
                       IN  [Country        |-> merged[i].Country,
                            Date           |-> ParseYear(merged[i].Date),
                            GDP            |-> g,
                            Population     |-> p,
                            GDP_per_capita |-> PerCapita(g, p)]]
    IN  SelectSeq(conv, LAMBDA r : ~IsNaN(r.GDP_per_capita))

(***************************************************************************)
(* get_inflation, single country (lines 164-180).                          *)
(***************************************************************************)
SingleInflation(nm, t) ==
    LET df   == SelectSeq(t, LAMBDA r : r.area = nm)
        conv == [i \in 1..Len(df) |->
                   [TIME_PERIOD       |-> ParseAny(df[i].TIME_PERIOD),
                    INFLATION_YOY_PCT |-> to_numeric(df[i].OBS_VALUE)]]
        kept == SelectSeq(conv, LAMBDA r : r.TIME_PERIOD # NaT
                                           /\ ~IsNaN(r.INFLATION_YOY_PCT))
    IN  SortByKey(kept, [i \in 1..Len(kept) |-> kept[i].TIME_PERIOD])

(***************************************************************************)
(* get_unemployment (lines 185-209 and 214-235: the two branches run the   *)
(* same pipeline on a different 'Reference area').                         *)
(***************************************************************************)
EU_UNEMPLOYMENT_AREA == "European Union (27 countries)"

UnemploymentFiltered(area, t) ==
    SelectSeq(t, LAMBDA r : r.STRUCTURE = "DATAFLOW" /\ r.AGE = "_T" /\ r.area = area)

\* columns of the pivot table: the LABOUR_FORCE_STATUS values that occur
PivotColumns(area, t) ==
    {r.status : r \in Range(UnemploymentFiltered(area, t))}

\* df_pivot['LF'] / df_pivot['EMP'] raise KeyError when the column is absent
UnemploymentKeyError(area, t) ==
    ~({"LF", "EMP"} \subseteq PivotColumns(area, t))

\* one cell of pivot_table(..., aggfunc='sum'): NaN when no row falls in it
PivotCell(df, period, status) ==
    LET vals == SelectSeq(df, LAMBDA r : r.TIME_PERIOD = period /\ r.status = status)
    IN  IF vals = <<>> THEN NaN
        ELSE FSum([i \in 1..Len(vals) |-> Fin(vals[i].OBS_VALUE)])

UnemploymentRate(lf, emp) == FMul(FDiv(FSub(lf, emp), lf), Fin(100))

SingleUnemployment(area, t) ==
    LET df      == UnemploymentFiltered(area, t)
        periods == SetToSortedSeq({ParseYear(r.TIME_PERIOD) : r \in Range(df)})
        tokOf(d) == CHOOSE tok \in {r.TIME_PERIOD : r \in Range(df)} : ParseYear(tok) = d
        pivot   == [i \in 1..Len(periods) |->
                      [Country |-> area,
                       Date    |-> periods[i],
                       UnemploymentRate |->
                           UnemploymentRate(PivotCell(df, tokOf(periods[i]), "LF"),
                                            PivotCell(df, tokOf(periods[i]), "EMP"))]]
    IN  SelectSeq(pivot, LAMBDA r : r.Date # NaT /\ ~IsNaN(r.UnemploymentRate))

(***************************************************************************)
(* get_bond_yields (lines 241-266).                                        *)
(***************************************************************************)
EU_NAME        == "European Union"
BOND_AREA_NAME == "Euro area (19 countries)"

\* the alias substitution left out
BondNameKeep(nm) == nm

\* lines 241-242: the name the loader filters by, and leaves in self.name
BondName(nm) == IF nm = EU_NAME THEN BOND_AREA_NAME ELSE nm

\* lines 252-253: year-month first, year-only for the rows that failed
BondDate(tok) ==
    IF ParseYearMonth(tok) # NaT THEN ParseYearMonth(tok) ELSE ParseYear(tok)

BondInRange(v) == FLe(Fin(-5), v) /\ FLe(v, Fin(50))

\* drop_duplicates left out
BondDedupMissing(s) == s

BondDedup(s) == DropDuplicates(s, [i \in 1..Len(s) |-> s[i].Date], {})

SingleBondYields(nm, t) ==
    LET df   == SelectSeq(t, LAMBDA r : r.STRUCTURE = "DATAFLOW" /\ r.area = nm)
        conv == [i \in 1..Len(df) |->
                   [Country   |-> df[i].area,
                    Date      |-> BondDate(df[i].TIME_PERIOD),
                    BondYield |-> to_numeric(df[i].OBS_VALUE)]]
        kept == SelectSeq(conv, LAMBDA r : r.Date # NaT /\ ~IsNaN(r.BondYield))
        rng  == SelectSeq(kept, LAMBDA r : BondInRange(r.BondYield))
        uniq == BondDedup(rng)
    IN  SortByKey(uniq, [i \in 1..Len(uniq) |-> uniq[i].Date])

(***************************************************************************)
(* Aggregate paths (lines 44-61, 80-97, 124-161).                          *)
(***************************************************************************)
\* the try/except around the loop instead of inside it: the first failing
\* member ends the loop
RECURSIVE MemberLoopStopsAtFailure(_, _, _, _)
MemberLoopStopsAtFailure(members, frames, failed, i) ==
    IF i > Len(members) THEN [all_dfs |-> <<>>, warnings |-> <<>>]
    ELSE IF members[i] \in failed
         THEN [all_dfs |-> <<>>, warnings |-> <<members[i]>>]
         ELSE LET rest == MemberLoopStopsAtFailure(members, frames, failed, i + 1)
              IN  [all_dfs |-> <<frames[i]>> \o rest.all_dfs, warnings |-> rest.warnings]

\* The member loop: frames[i] is what the single-entity load of members[i]
\* stores; failed is the set of members whose load raised.  A failing
\* member is reported and the loop goes on with the next one.
RECURSIVE MemberLoop(_, _, _, _)
MemberLoop(members, frames, failed, i) ==
    IF i > Len(members) THEN [all_dfs |-> <<>>, warnings |-> <<>>]
    ELSE LET rest == MemberLoop(members, frames, failed, i + 1)
         IN  IF members[i] \in failed
             THEN [all_dfs |-> rest.all_dfs, warnings |-> <<members[i]>> \o rest.warnings]
             ELSE [all_dfs |-> <<frames[i]>> \o rest.all_dfs, warnings |-> rest.warnings]

\* the group keys of a groupby, in ascending order
GroupKeys(k) == SetToSortedSeq(Range(k))

\* df_concat.groupby("Date", as_index=False)["GDP"].sum()
CombineGdp(all_dfs) ==
    LET df    == Concat(all_dfs)
        dates == GroupKeys([i \in 1..Len(df) |-> df[i].Date])
    IN  [i \in 1..Len(dates) |->
            LET g == SelectSeq(df, LAMBDA r : r.Date = dates[i])
            IN  [Date |-> dates[i], GDP |-> FSum([j \in 1..Len(g) |-> g[j].GDP])]]

\* df_concat.groupby("Date", as_index=False)["GDP_per_capita"].mean()
CombineGdpPerCapita(all_dfs) ==
    LET df    == Concat(all_dfs)
        dates == GroupKeys([i \in 1..Len(df) |-> df[i].Date])
    IN  [i \in 1..Len(dates) |->
            LET g == SelectSeq(df, LAMBDA r : r.Date = dates[i])
            IN  [Date |-> dates[i],
                 GDP_per_capita |-> FMean([j \in 1..Len(g) |-> g[j].GDP_per_capita])]]

\* upper outlier bound 100 instead of 50
InflationInRangeWide(v) == FLe(Fin(-50), v) /\ FLe(v, Fin(100))

\* lines 149-150
InflationInRange(v) == FLe(Fin(-50), v) /\ FLe(v, Fin(50))

\* counts > len(EU_COUNTRIES) / 2
EnoughCoverageStrict(count, n) == 2 * count > n

\* line 154: counts >= len(EU_COUNTRIES) / 2
EnoughCoverage(count, n) == 2 * count >= n

\* lines 153: the number of rows of the date with a value
CoverageCount(df, d) == Len(SelectSeq(df, LAMBDA r : r.TIME_PERIOD = d))

CombineInflation(all_dfs, n) ==
    LET df    == SelectSeq(Concat(all_dfs), LAMBDA r : InflationInRange(r.INFLATION_YOY_PCT))
        valid == SelectSeq(df, LAMBDA r : EnoughCoverage(CoverageCount(df, r.TIME_PERIOD), n))
        dates == GroupKeys([i \in 1..Len(valid) |-> valid[i].TIME_PERIOD])
    IN  [i \in 1..Len(dates) |->
            LET g == SelectSeq(valid, LAMBDA r : r.TIME_PERIOD = dates[i])
            IN  [TIME_PERIOD |-> dates[i],
                 INFLATION_YOY_PCT |-> FMean([j \in 1..Len(g) |-> g[j].INFLATION_YOY_PCT])]]

(***************************************************************************)
(* State: one CountryData object, the four source files it reads, and the  *)
(* observable result of the last operation invoked on it.                  *)
(***************************************************************************)
VARIABLES
    name,              \* self.name
    gdp,               \* self.gdp
    gdp_per_capita,    \* self.gdp_per_capita
    inflation,         \* self.inflation
    unemployment,      \* self.unemployment
    bond_yields,       \* self.bond_yields
    EU_COUNTRIES,      \* CountryData.EU_COUNTRIES
    pwt_csv,           \* DB/Penn World Table.csv
    cpi_csv,           \* DB/CPI.csv
    unemployment_csv,  \* DB/Unemployment.csv
    bonds_csv,         \* DB/Long-Term Interest Rates.csv
    lastOp,            \* the method invoked last
    outcome,           \* "ok", or the exception it raised
    path,              \* branch it took: "aggregate", "single" or "cached"
    warnings,          \* members reported by "Warning: Could not load ..."
    loads,             \* how many times each loader has run on the entity
    lines,             \* labels of the lines drawn on the axes
    calls              \* operations invoked so far

vars == <<name, gdp, gdp_per_capita, inflation, unemployment, bond_yields,
          EU_COUNTRIES, pwt_csv, cpi_csv, unemployment_csv, bonds_csv,
          lastOp, outcome, path, warnings, loads, lines, calls>>

sources == <<EU_COUNTRIES, pwt_csv, cpi_csv, unemployment_csv, bonds_csv>>

Indicators == {"gdp", "gdp_per_capita", "inflation", "unemployment", "bond_yields"}

\* a cache slot: None, or a stored DataFrame
None         == [loaded |-> FALSE, rows |-> <<>>]
Loaded(rows) == [loaded |-> TRUE, rows |-> rows]

(***************************************************************************)
(* Results of the loaders: what a get_<indicator> call does to the entity. *)
(* failed is the set of members whose recursive load raised, readOk tells  *)
(* whether pd.read_csv succeeded.                                          *)
(***************************************************************************)
\* the test that opens the aggregate branch (lines 44, 80, 124, 185)
IsAggregate(nm) == nm = EU_NAME

\* the bond yield label written instead of the canonical one
NameAfterAggregateAlias(nm) == BOND_AREA_NAME

\* self.name = "European Union" (lines 60, 96, 159, 208)
NameAfterAggregate(nm) == EU_NAME

Raised(err, pth, nm, warns) ==
    [outcome |-> err, path |-> pth, stored |-> FALSE, rows |-> <<>>,
     name |-> nm, warnings |-> warns]

Stored(rows, pth, nm, warns) ==
    [outcome |-> "ok", path |-> pth, stored |-> TRUE, rows |-> rows,
     name |-> nm, warnings |-> warns]

\* lines 54-61 (and 90-97, 136-161): nothing collected raises ValueError
AggregateResult(nm, loop, combined) ==
    IF loop.all_dfs = <<>>
    THEN Raised("NoDataAggregated", "aggregate", nm, loop.warnings)
    ELSE Stored(combined, "aggregate", NameAfterAggregate(nm), loop.warnings)

SingleResult(nm, readOk, rows) ==
    IF readOk THEN Stored(rows, "single", nm, <<>>)
    ELSE Raised("ReadError", "single", nm, <<>>)

GdpResult(nm, members, t, failed, readOk) ==
    IF IsAggregate(nm)
    THEN LET frames == [i \in 1..Len(members) |-> SingleGdp(members[i], t)]
             loop   == MemberLoop(members, frames, failed, 1)
         IN  AggregateResult(nm, loop, CombineGdp(loop.all_dfs))
    ELSE SingleResult(nm, readOk, SingleGdp(nm, t))

GdpPerCapitaResult(nm, members, t, failed, readOk) ==
    IF IsAggregate(nm)
    THEN LET frames == [i \in 1..Len(members) |-> SingleGdpPerCapita(members[i], t)]
             loop   == MemberLoop(members, frames, failed, 1)
         IN  AggregateResult(nm, loop, CombineGdpPerCapita(loop.all_dfs))
    ELSE SingleResult(nm, readOk, SingleGdpPerCapita(nm, t))

InflationResult(nm, members, t, failed, readOk) ==
    IF IsAggregate(nm)
    THEN LET frames == [i \in 1..Len(members) |-> SingleInflation(members[i], t)]
             loop   == MemberLoop(members, frames, failed, 1)
         IN  AggregateResult(nm, loop, CombineInflation(loop.all_dfs, Len(members)))
    ELSE SingleResult(nm, readOk, SingleInflation(nm, t))

UnemploymentResult(nm, t, readOk) ==
    LET agg  == IsAggregate(nm)
        area == IF agg THEN EU_UNEMPLOYMENT_AREA ELSE nm
        pth  == IF agg THEN "aggregate" ELSE "single"
    IN  IF ~readOk THEN Raised("ReadError", pth, nm, <<>>)
        ELSE IF UnemploymentKeyError(area, t) THEN Raised("KeyError", pth, nm, <<>>)
        ELSE Stored(SingleUnemployment(area, t), pth,
                    IF agg THEN NameAfterAggregate(nm) ELSE nm, <<>>)

\* the name is rewritten before the file is read (lines 241-245)
BondYieldsResult(nm, t, readOk) ==
    IF ~readOk THEN Raised("ReadError", "single", BondName(nm), <<>>)
    ELSE Stored(SingleBondYields(BondName(nm), t), "single", BondName(nm), <<>>)

\* the outcomes of pd.read_csv / of the member loads that the entity can see
FailedSets(nm, members) == IF IsAggregate(nm) THEN SUBSET Range(members) ELSE {{}}
ReadOutcomes(nm, perMember) == IF perMember /\ IsAggregate(nm) THEN {TRUE} ELSE BOOLEAN

(***************************************************************************)
(* Source files the model reads.                                           *)
(***************************************************************************)
PwtRow(c, code, cell) == [Country |-> c, code |-> code, cells |-> [y \in {"2019"} |-> cell]]

PwtWideRow(c, code, a, b) ==
    [Country |-> c, code |-> code,
     cells |-> [y \in {"2019", "2020"} |-> IF y = "2019" THEN a ELSE b]]

\* one year column, at most MaxPwtRows rows of any kind
PwtNarrowTables ==
    LET rows == {PwtRow(c, code, cell) : c \in {"Austria", "Belgium"},
                                        code \in {"rgdpo", "pop"},
                                        cell \in {Na, Str, Num(0), Num(6)}}
    IN  {[cols |-> <<"2019">>, rows |-> r] : r \in SeqsUpTo(rows, MaxPwtRows)}

\* two year columns in either order, Austria's GDP and one more row
PwtWideTables ==
    LET vals   == {Num(0), Num(6)}
        first  == {PwtWideRow("Austria", "rgdpo", a, b) : a \in vals, b \in vals}
        second == {PwtWideRow("Austria", "pop", a, b) : a \in vals, b \in vals}
                  \cup {PwtWideRow("Belgium", "rgdpo", a, b) : a \in vals, b \in vals}
    IN  {[cols |-> c, rows |-> <<r1, r2>>] :
            c \in {<<"2019", "2020">>, <<"2020", "2019">>}, r1 \in first, r2 \in second}

\* GDP and population of two countries for one year
PwtPanelTables ==
    LET vals == {Num(0), Num(3), Num(6)}
    IN  {[cols |-> <<"2019">>,
          rows |-> <<PwtRow("Austria", "rgdpo", a), PwtRow("Austria", "pop", b),
                     PwtRow("Belgium", "rgdpo", c), PwtRow("Belgium", "pop", d)>>] :
            a \in vals, b \in vals, c \in vals, d \in vals}

PwtTables == PwtNarrowTables \cup PwtWideTables \cup PwtPanelTables

CpiRow(a, p, v) == [area |-> a, TIME_PERIOD |-> p, OBS_VALUE |-> v]

CpiSeqTables ==
    LET rows == {CpiRow(a, p, v) : a \in {"Austria", "Belgium"}, p \in {"2020", "2019"},
                                   v \in {Num(3), Num(60), Str}}
                \cup {CpiRow("Austria", "n/a", Num(3))}
    IN  SeqsUpTo(rows, MaxCpiRows)

\* at most one row per country and year, 2020 before 2019
CpiPanelTables ==
    LET cell(a, p) == {<<>>} \cup {<<CpiRow(a, p, v)>> : v \in {Num(3), Num(9), Num(60)}}
    IN  {w \o x \o y \o z : w \in cell("Austria", "2020"), x \in cell("Belgium", "2020"),
                            y \in cell("Belgium", "2019"), z \in cell("Austria", "2019")}

CpiTables == CpiSeqTables \cup CpiPanelTables

UnempRow(s, g, a, st, p, v) ==
    [STRUCTURE |-> s, AGE |-> g, area |-> a, status |-> st, TIME_PERIOD |-> p, OBS_VALUE |-> v]

UnempSeqTables ==
    LET rows == {UnempRow("DATAFLOW", "_T", "Austria", st, p, v) :
                    st \in {"LF", "EMP"}, p \in {"2020", "2019"}, v \in {0, 10}}
                \cup {UnempRow("DATAFLOW", "_T", EU_UNEMPLOYMENT_AREA, st, "2019", v) :
                    st \in {"LF", "EMP"}, v \in {8, 10}}
                \cup {UnempRow("DATASTRUCTURE", "_T", "Austria", "LF", "2019", 10),
                      UnempRow("DATAFLOW", "Y15T24", "Austria", "EMP", "2019", 10)}
    IN  SeqsUpTo(rows, MaxUnempRows)

UnempPanelTables ==
    LET cell(st, p) == {<<>>} \cup {<<UnempRow("DATAFLOW", "_T", "Austria", st, p, v)>> :
                                        v \in {0, 10}}
    IN  {w \o x \o y \o z : w \in cell("LF", "2020"), x \in cell("EMP", "2020"),
                            y \in cell("EMP", "2019"), z \in cell("LF", "2019")}

UnempTables == UnempSeqTables \cup UnempPanelTables

BondRow(s, a, p, v) == [STRUCTURE |-> s, area |-> a, TIME_PERIOD |-> p, OBS_VALUE |-> v]

BondTables ==
    LET rows == {BondRow("DATAFLOW", "Austria", p, v) :
                    p \in {"2019-02", "2019", "2019-01"}, v \in {Num(3), Num(60)}}
                \cup {BondRow("DATAFLOW", "Austria", "n/a", Num(3)),
                      BondRow("DATAFLOW", "Austria", "2019", Str),
                      BondRow("DATAFLOW", "Austria", "2020", Num(-6)),
                      BondRow("DATAFLOW", BOND_AREA_NAME, "2019", Num(3)),
                      BondRow("DATAFLOW", BOND_AREA_NAME, "2019-01", Num(4)),
                      BondRow("DATASTRUCTURE", "Austria", "2019", Num(3))}
    IN  SeqsUpTo(rows, MaxBondRows)

\* the files of the lifecycle runs
SamplePwt   == [cols |-> <<"2019">>,
                rows |-> <<PwtRow("Austria", "rgdpo", Num(6)), PwtRow("Austria", "pop", Num(3))>>]
SampleCpi   == <<CpiRow("Austria", "2019", Num(3))>>
SampleUnemp == <<UnempRow("DATAFLOW", "_T", EU_UNEMPLOYMENT_AREA, "LF", "2019", 10),
                 UnempRow("DATAFLOW", "_T", EU_UNEMPLOYMENT_AREA, "EMP", "2019", 8)>>
SampleBonds == <<BondRow("DATAFLOW", BOND_AREA_NAME, "2019", Num(3))>>

EntityNames == {EU_NAME, "Austria", "Atlantis", BOND_AREA_NAME}

(***************************************************************************)
(* __init__ (lines 16-24).                                                 *)
(***************************************************************************)
Construct(nm) ==
    /\ name = nm
    /\ gdp = None
    /\ gdp_per_capita = None
    /\ inflation = None
    /\ unemployment = None
    /\ bond_yields = None
    /\ lastOp = "__init__"
    /\ outcome = "ok"
    /\ path = "none"
    /\ warnings = <<>>
    /\ loads = [i \in Indicators |-> 0]
    /\ lines = <<>>
    /\ calls = 0

\* one entity, the sample files, a member list of one country
Init ==
    /\ \E nm \in EntityNames : Construct(nm)
    /\ EU_COUNTRIES = SubSeq(AllMembers, 1, 1)
    /\ pwt_csv = SamplePwt
    /\ cpi_csv = SampleCpi
    /\ unemployment_csv = SampleUnemp
    /\ bonds_csv = SampleBonds

\* one entity, any member list, one of the files drawn from its tables
InitLoad ==
    /\ \E nm \in EntityNames \ {BOND_AREA_NAME} : Construct(nm)
    /\ EU_COUNTRIES \in MemberLists
    /\ \/ /\ pwt_csv \in PwtTables
          /\ cpi_csv = SampleCpi /\ unemployment_csv = SampleUnemp /\ bonds_csv = SampleBonds
       \/ /\ cpi_csv \in CpiTables
          /\ pwt_csv = SamplePwt /\ unemployment_csv = SampleUnemp /\ bonds_csv = SampleBonds
       \/ /\ unemployment_csv \in UnempTables
          /\ pwt_csv = SamplePwt /\ cpi_csv = SampleCpi /\ bonds_csv = SampleBonds
       \/ /\ bonds_csv \in BondTables
          /\ pwt_csv = SamplePwt /\ cpi_csv = SampleCpi /\ unemployment_csv = SampleUnemp

(***************************************************************************)
(* Operations.                                                             *)
(***************************************************************************)
\* the lazy check left out: plot always loads
NeedsLoadAlways(slot) == TRUE

\* "if self.<slot> is None" (lines 277, 292, 307, 322, 337)
NeedsLoad(slot) == ~slot.loaded

\* a plot_<indicator> call that finds its slot filled
Cached(nm) ==
    [outcome |-> "ok", path |-> "cached", stored |-> FALSE, rows |-> <<>>,
     name |-> nm, warnings |-> <<>>]

Slot(ind, res, old) == IF res.stored THEN Loaded(res.rows) ELSE old

Finish(op, ind, res, draw) ==
    /\ name' = res.name
    /\ gdp'            = IF ind = "gdp" THEN Slot(ind, res, gdp) ELSE gdp
    /\ gdp_per_capita' = IF ind = "gdp_per_capita" THEN Slot(ind, res, gdp_per_capita)
                         ELSE gdp_per_capita
    /\ inflation'      = IF ind = "inflation" THEN Slot(ind, res, inflation) ELSE inflation
    /\ unemployment'   = IF ind = "unemployment" THEN Slot(ind, res, unemployment)
                         ELSE unemployment
    /\ bond_yields'    = IF ind = "bond_yields" THEN Slot(ind, res, bond_yields)
                         ELSE bond_yields
    /\ lastOp' = op
    /\ outcome' = res.outcome
    /\ path' = res.path
    /\ warnings' = res.warnings
    /\ loads' = IF res.path = "cached" THEN loads ELSE [loads EXCEPT ![ind] = @ + 1]
    /\ lines' = IF draw /\ res.outcome = "ok" THEN Append(lines, res.name) ELSE lines
    /\ calls' = calls + 1
    /\ UNCHANGED sources

get_gdp ==
    /\ calls < MaxCalls
    /\ \E failed \in FailedSets(name, EU_COUNTRIES), readOk \in ReadOutcomes(name, TRUE) :
          Finish("get_gdp", "gdp",
                 GdpResult(name, EU_COUNTRIES, pwt_csv, failed, readOk), FALSE)

get_gdp_per_capita ==
    /\ calls < MaxCalls
    /\ \E failed \in FailedSets(name, EU_COUNTRIES), readOk \in ReadOutcomes(name, TRUE) :
          Finish("get_gdp_per_capita", "gdp_per_capita",
                 GdpPerCapitaResult(name, EU_COUNTRIES, pwt_csv, failed, readOk), FALSE)

get_inflation ==
    /\ calls < MaxCalls
    /\ \E failed \in FailedSets(name, EU_COUNTRIES), readOk \in ReadOutcomes(name, TRUE) :
          Finish("get_inflation", "inflation",
                 InflationResult(name, EU_COUNTRIES, cpi_csv, failed, readOk), FALSE)

get_unemployment ==
    /\ calls < MaxCalls
    /\ \E readOk \in BOOLEAN :
          Finish("get_unemployment", "unemployment",
                 UnemploymentResult(name, unemployment_csv, readOk), FALSE)

get_bond_yields ==
    /\ calls < MaxCalls
    /\ \E readOk \in BOOLEAN :
          Finish("get_bond_yields", "bond_yields",
                 BondYieldsResult(name, bonds_csv, readOk), FALSE)

plot_gdp ==
    /\ calls < MaxCalls
    /\ IF NeedsLoad(gdp)
       THEN \E failed \in FailedSets(name, EU_COUNTRIES), readOk \in ReadOutcomes(name, TRUE) :
               Finish("plot_gdp", "gdp",
                      GdpResult(name, EU_COUNTRIES, pwt_csv, failed, readOk), TRUE)
       ELSE Finish("plot_gdp", "gdp", Cached(name), TRUE)

plot_gdp_per_capita ==
    /\ calls < MaxCalls
    /\ IF NeedsLoad(gdp_per_capita)
       THEN \E failed \in FailedSets(name, EU_COUNTRIES), readOk \in ReadOutcomes(name, TRUE) :
               Finish("plot_gdp_per_capita", "gdp_per_capita",
                      GdpPerCapitaResult(name, EU_COUNTRIES, pwt_csv, failed, readOk), TRUE)
       ELSE Finish("plot_gdp_per_capita", "gdp_per_capita", Cached(name), TRUE)

plot_inflation ==
    /\ calls < MaxCalls
    /\ IF NeedsLoad(inflation)
       THEN \E failed \in FailedSets(name, EU_COUNTRIES), readOk \in ReadOutcomes(name, TRUE) :
               Finish("plot_inflation", "inflation",
                      InflationResult(name, EU_COUNTRIES, cpi_csv, failed, readOk), TRUE)
       ELSE Finish("plot_inflation", "inflation", Cached(name), TRUE)

plot_unemployment ==
    /\ calls < MaxCalls
    /\ IF NeedsLoad(unemployment)
       THEN \E readOk \in BOOLEAN :
               Finish("plot_unemployment", "unemployment",
                      UnemploymentResult(name, unemployment_csv, readOk), TRUE)
       ELSE Finish("plot_unemployment", "unemployment", Cached(name), TRUE)

plot_bond_yields ==
    /\ calls < MaxCalls
    /\ IF NeedsLoad(bond_yields)
       THEN \E readOk \in BOOLEAN :
               Finish("plot_bond_yields", "bond_yields",
                      BondYieldsResult(name, bonds_csv, readOk), TRUE)
       ELSE Finish("plot_bond_yields", "bond_yields", Cached(name), TRUE)

Next ==
    \/ get_gdp
    \/ get_gdp_per_capita
    \/ get_inflation
    \/ get_unemployment
    \/ get_bond_yields
    \/ plot_gdp
    \/ plot_gdp_per_capita
    \/ plot_inflation
    \/ plot_unemployment
    \/ plot_bond_yields

Spec == Init /\ [][Next]_vars

\* a single load on a fresh entity, over the source tables
NextLoad ==
    \/ calls = 0 /\ get_gdp
    \/ calls = 0 /\ get_gdp_per_capita
    \/ calls = 0 /\ get_inflation
    \/ calls = 0 /\ get_unemployment
    \/ calls = 0 /\ get_bond_yields

SpecLoad == InitLoad /\ [][NextLoad]_vars

(***************************************************************************)
(* Properties.                                                             *)
(***************************************************************************)

\* C1: a single-entity load whose entity name matches no row of the source
\* ends in the EmptyResult error: it neither completes normally with an
\* empty series nor fails with another error.
C1_UnknownNameEndsInEmptyResult ==
    LET unknown ==
          CASE lastOp \in {"get_gdp", "get_gdp_per_capita"} ->
                   \A r \in Range(pwt_csv.rows) : r.Country # name
            [] lastOp = "get_inflation" ->
                   \A r \in Range(cpi_csv) : r.area # name
            [] lastOp = "get_unemployment" ->
                   \A r \in Range(unemployment_csv) : r.area # name
            [] lastOp = "get_bond_yields" ->
                   \A r \in Range(bonds_csv) : r.area # name
            [] OTHER -> FALSE
    IN  (path = "single" /\ outcome # "ReadError" /\ unknown) => outcome = "EmptyResult"

\* C2: the series stored by the single-entity get_gdp_per_capita has no row
\* whose population is zero, missing or non-numeric.
C2_NoRowWithoutPopulation ==
    (lastOp = "get_gdp_per_capita" /\ path = "single" /\ outcome = "ok")
    => \A r \in Range(gdp_per_capita.rows) :
          IsFinite(r.Population) /\ r.Population[1] # 0

\* C3: the aggregate inflation series has no date for which fewer than
\* ceil(|EU_COUNTRIES| / 2) distinct members reported a numeric value.
C3_CoverageCountsDistinctMembers ==
    (lastOp = "get_inflation" /\ path = "aggregate" /\ outcome = "ok")
    => \A r \in Range(inflation.rows) :
          LET reporters == {m \in Range(EU_COUNTRIES) :
                               \E s \in Range(cpi_csv) :
                                   /\ s.area = m
                                   /\ ParseAny(s.TIME_PERIOD) = r.TIME_PERIOD
                                   /\ s.OBS_VALUE.t = "num"}
          IN  2 * Cardinality(reporters) >= Len(EU_COUNTRIES)

\* C4: the series stored by get_bond_yields has pairwise distinct dates and
\* every yield v satisfies -5 <= v <= 50.
C4_BondSeriesDistinctAndBounded ==
    bond_yields.loaded =>
        LET s == bond_yields.rows
        IN  /\ \A i, j \in 1..Len(s) : i # j => s[i].Date # s[j].Date
            /\ \A i \in 1..Len(s) :
                  /\ s[i].BondYield[2] > 0
                  /\ -5 * s[i].BondYield[2] <= s[i].BondYield[1]
                  /\ s[i].BondYield[1] <= 50 * s[i].BondYield[2]

\* C4 witness: a series was stored from a file that holds two rows of the
\* entity with the same date, both with a numeric yield.
C4_Witness ==
    /\ bond_yields.loaded
    /\ bond_yields.rows # <<>>
    /\ \E i, j \in 1..Len(bonds_csv) :
          /\ i < j
          /\ bonds_csv[i].STRUCTURE = "DATAFLOW" /\ bonds_csv[j].STRUCTURE = "DATAFLOW"
          /\ bonds_csv[i].area = name /\ bonds_csv[j].area = name
          /\ BondDate(bonds_csv[i].TIME_PERIOD) = BondDate(bonds_csv[j].TIME_PERIOD)
          /\ bonds_csv[i].TIME_PERIOD # bonds_csv[j].TIME_PERIOD
          /\ bonds_csv[i].OBS_VALUE.t = "num" /\ bonds_csv[j].OBS_VALUE.t = "num"

\* The (date, value) pairs of the series an aggregate load stored, and of
\* the series the single-entity loader produces for the only member.
AggregatePairs ==
    CASE lastOp = "get_gdp" ->
             [i \in 1..Len(gdp.rows) |-> <<gdp.rows[i].Date, gdp.rows[i].GDP>>]
      [] lastOp = "get_gdp_per_capita" ->
             [i \in 1..Len(gdp_per_capita.rows) |->
                 <<gdp_per_capita.rows[i].Date, gdp_per_capita.rows[i].GDP_per_capita>>]
      [] lastOp = "get_inflation" ->
             [i \in 1..Len(inflation.rows) |->
                 <<inflation.rows[i].TIME_PERIOD, inflation.rows[i].INFLATION_YOY_PCT>>]

MemberPairs ==
    LET m == EU_COUNTRIES[1]
    IN  CASE lastOp = "get_gdp" ->
                 LET s == SingleGdp(m, pwt_csv)
                 IN  [i \in 1..Len(s) |-> <<s[i].Date, s[i].GDP>>]
          [] lastOp = "get_gdp_per_capita" ->
                 LET s == SingleGdpPerCapita(m, pwt_csv)
                 IN  [i \in 1..Len(s) |-> <<s[i].Date, s[i].GDP_per_capita>>]
          [] lastOp = "get_inflation" ->
                 LET s == SingleInflation(m, cpi_csv)
                 IN  [i \in 1..Len(s) |-> <<s[i].TIME_PERIOD, s[i].INFLATION_YOY_PCT>>]

OneMemberAggregate ==
    /\ Len(EU_COUNTRIES) = 1
    /\ lastOp \in {"get_gdp", "get_gdp_per_capita", "get_inflation"}
    /\ path = "aggregate"
    /\ outcome = "ok"

Within50(v) == v[2] > 0 /\ -50 * v[2] <= v[1] /\ v[1] <= 50 * v[2]

\* C5 as stated: with a member list of one country the aggregate series of
\* GDP, GDP per capita and inflation equals the member's own series, also
\* for inflation values outside [-50, 50].
C5_OneMemberAggregateIsMemberSeries ==
    OneMemberAggregate => AggregatePairs = MemberPairs

\* C5 amended: with a member list of one country whose own series has
\* strictly ascending dates, the aggregate series equals the member's
\* series, except that for inflation the member's observations outside
\* [-50, 50] are left out of the aggregate.
C5_OneMemberAggregateAmended ==
    (/\ OneMemberAggregate
     /\ \A i \in 1..(Len(MemberPairs) - 1) : MemberPairs[i][1] < MemberPairs[i + 1][1])
    => AggregatePairs =
          IF lastOp = "get_inflation"
          THEN SelectSeq(MemberPairs, LAMBDA q : Within50(q[2]))
          ELSE MemberPairs

\* C5 witness: an aggregate inflation load over one member whose series has
\* ascending dates, an observation above 50 and one inside the range.
C5_Witness ==
    /\ OneMemberAggregate
    /\ lastOp = "get_inflation"
    /\ \A i \in 1..(Len(MemberPairs) - 1) : MemberPairs[i][1] < MemberPairs[i + 1][1]
    /\ \E q \in Range(MemberPairs) : ~Within50(q[2])
    /\ inflation.rows # <<>>

\* the members of the list that the last aggregate load did not report
Succeeded == SelectSeq(EU_COUNTRIES, LAMBDA m : m \notin Range(warnings))

\* C6: an aggregate load visits the members in list order, skips every
\* member whose load fails, combines exactly the series of the others, and
\* fails with NoDataAggregated if and only if no member produced a series.
C6_AggregateSkipsFailedMembers ==
    (lastOp \in {"get_gdp", "get_gdp_per_capita", "get_inflation"} /\ path = "aggregate")
    => /\ warnings = SelectSeq(EU_COUNTRIES, LAMBDA m : m \in Range(warnings))
       /\ outcome \in {"ok", "NoDataAggregated"}
       /\ outcome = "NoDataAggregated" <=> Range(warnings) = Range(EU_COUNTRIES)
       /\ outcome = "ok" =>
             CASE lastOp = "get_gdp" ->
                      gdp = Loaded(CombineGdp(
                          [i \in 1..Len(Succeeded) |-> SingleGdp(Succeeded[i], pwt_csv)]))
               [] lastOp = "get_gdp_per_capita" ->
                      gdp_per_capita = Loaded(CombineGdpPerCapita(
                          [i \in 1..Len(Succeeded) |->
                              SingleGdpPerCapita(Succeeded[i], pwt_csv)]))
               [] lastOp = "get_inflation" ->
                      inflation = Loaded(CombineInflation(
                          [i \in 1..Len(Succeeded) |-> SingleInflation(Succeeded[i], cpi_csv)],
                          Len(EU_COUNTRIES)))

\* C6 witness: an aggregate GDP load in which the first member failed, a
\* later one succeeded, and the stored series is not empty.
C6_Witness ==
    /\ lastOp = "get_gdp"
    /\ path = "aggregate"
    /\ outcome = "ok"
    /\ warnings = <<EU_COUNTRIES[1]>>
    /\ Len(EU_COUNTRIES) >= 2
    /\ gdp.loaded
    /\ gdp.rows # <<>>

\* The test case of C7: two members, rows for 2019 and 2020 only, at most
\* one row per member and year, exactly one member with a 2019 value, both
\* with a 2020 value, and an aggregate inflation load in which no member
\* load failed.
C7_Scenario ==
    LET reports(m, p) == \E r \in Range(cpi_csv) :
                             r.area = m /\ r.TIME_PERIOD = p /\ r.OBS_VALUE.t = "num"
    IN  /\ Len(EU_COUNTRIES) = 2
        /\ lastOp = "get_inflation"
        /\ path = "aggregate"
        /\ outcome = "ok"
        /\ warnings = <<>>
        /\ \A r \in Range(cpi_csv) :
              r.area \in Range(EU_COUNTRIES) /\ r.TIME_PERIOD \in {"2019", "2020"}
        /\ \A i, j \in 1..Len(cpi_csv) :
              (i # j) => ~(/\ cpi_csv[i].area = cpi_csv[j].area
                           /\ cpi_csv[i].TIME_PERIOD = cpi_csv[j].TIME_PERIOD)
        /\ Cardinality({m \in Range(EU_COUNTRIES) : reports(m, "2019")}) = 1
        /\ \A m \in Range(EU_COUNTRIES) : reports(m, "2020")

InflationDates == {r.TIME_PERIOD : r \in Range(inflation.rows)}

\* C7 as stated: in the test case the aggregate inflation series excludes
\* 2019 and includes 2020.
C7_HalfCoverageExcluded ==
    C7_Scenario => (201901 \notin InflationDates /\ 202001 \in InflationDates)

\* C7 amended: in the test case, when the reported values lie within
\* [-50, 50], the aggregate inflation series includes 2019 as well as 2020
\* (one of two members meets the threshold of half the member list).
C7_HalfCoverageIncluded ==
    (/\ C7_Scenario
     /\ \A r \in Range(cpi_csv) : r.OBS_VALUE.t = "num" => Within50(Fin(r.OBS_VALUE.v)))
    => InflationDates = {201901, 202001}

\* C7 witness: the test case with values inside the range and a stored
\* series of two rows.
C7_Witness ==
    /\ C7_Scenario
    /\ \A r \in Range(cpi_csv) : r.OBS_VALUE.t = "num" => Within50(Fin(r.OBS_VALUE.v))
    /\ Len(inflation.rows) = 2

Slots ==
    [i \in Indicators |->
        CASE i = "gdp"            -> gdp
          [] i = "gdp_per_capita" -> gdp_per_capita
          [] i = "inflation"      -> inflation
          [] i = "unemployment"   -> unemployment
          [] i = "bond_yields"    -> bond_yields]

PlotOf ==
    [i \in Indicators |->
        CASE i = "gdp"            -> "plot_gdp"
          [] i = "gdp_per_capita" -> "plot_gdp_per_capita"
          [] i = "inflation"      -> "plot_inflation"
          [] i = "unemployment"   -> "plot_unemployment"
          [] i = "bond_yields"    -> "plot_bond_yields"]

GetOf ==
    [i \in Indicators |->
        CASE i = "gdp"            -> "get_gdp"
          [] i = "gdp_per_capita" -> "get_gdp_per_capita"
          [] i = "inflation"      -> "get_inflation"
          [] i = "unemployment"   -> "get_unemployment"
          [] i = "bond_yields"    -> "get_bond_yields"]

\* C8 as stated: once a cache slot is populated, no later access of the
\* indicator runs the loader again or replaces the cached series.
C8_SlotPopulatedOnce ==
    [][\A i \in Indicators :
          Slots[i].loaded => (Slots'[i] = Slots[i] /\ loads'[i] = loads[i])]_vars

\* C8 amended: every slot starts absent; a plot_<indicator> call runs the
\* loader only when the slot is absent and leaves a populated slot and all
\* other slots as they are, while every explicit get_<indicator> call runs
\* the loader again and overwrites the slot when it succeeds.
C8_PlotLoadsOnlyWhenAbsent ==
    /\ \A i \in Indicators : ~Slots[i].loaded /\ loads[i] = 0
    /\ [][\A i \in Indicators :
             /\ lastOp' = PlotOf[i] =>
                   /\ \A o \in Indicators \ {i} : Slots'[o] = Slots[o] /\ loads'[o] = loads[o]
                   /\ IF Slots[i].loaded
                      THEN Slots'[i] = Slots[i] /\ loads'[i] = loads[i] /\ path' = "cached"
                      ELSE loads'[i] = loads[i] + 1 /\ path' # "cached"
             /\ lastOp' = GetOf[i] =>
                   /\ loads'[i] = loads[i] + 1
                   /\ outcome' = "ok" => Slots'[i].loaded]_vars

\* C8 witness: a second plot_gdp on an entity whose GDP slot was filled by
\* the only run of the loader.
C8_Witness ==
    /\ lastOp = "plot_gdp"
    /\ path = "cached"
    /\ gdp.loaded
    /\ gdp.rows # <<>>
    /\ loads["gdp"] = 1
    /\ Len(lines) >= 2

C10_BondAliasIsPermanent ==
    [][/\ (name = EU_NAME /\ lastOp' \in {"get_bond_yields", "plot_bond_yields"})
             => name' = BOND_AREA_NAME
       /\ name = BOND_AREA_NAME => name' = BOND_AREA_NAME
       /\ (name = BOND_AREA_NAME /\ lastOp' \in {"get_gdp", "get_gdp_per_capita",
                                                 "get_inflation", "get_unemployment"})
             => path' = "single"
       /\ (name = BOND_AREA_NAME /\ lastOp' = "get_gdp" /\ outcome' = "ok")
             => gdp' = Loaded(SingleGdp(BOND_AREA_NAME, pwt_csv))]_vars

\* C10 witness: the entity was constructed as "European Union", the bond
\* yield loader ran first, and the GDP series then loaded differs from the
\* series the aggregate branch produces from the same file.
C10_Witness ==
    /\ name = BOND_AREA_NAME
    /\ loads["bond_yields"] = 1
    /\ calls = 2
    /\ lastOp = "get_gdp"
    /\ outcome = "ok"
    /\ path = "single"
    /\ gdp.rows # GdpResult(EU_NAME, EU_COUNTRIES, pwt_csv, {}, TRUE).rows

====
